---- MODULE Spec2Model ----
(***************************************************************************)
(* A model of models/Resnet.py: the channel schedule, the construction of   *)
(* the Base, the students and the BIO_Resnet ensemble, the partial loading  *)
(* of a pretrained checkpoint into the Base, the freezing of the Base and   *)
(* the ensemble's forward pass.                                             *)
(*                                                                          *)
(* Tensors are records [shape, data]: data is the row-major flattening.     *)
(* Logit values are integers; parameter names (checkpoint keys) are         *)
(* sequences of characters, so that Python's substring test `f in key` is   *)
(* modelled as a substring test.                                            *)
(***************************************************************************)
EXTENDS Integers, Sequences, FiniteSets, TLC

\* ---------------------------------------------------------------- bounds
MaxStudents == 2
MaxBatch == 2
MaxClasses == 2
MaxSchedStudents == 130

VARIABLES
    pc,                  \* "start" | "built" | "failed": the run's one model construction
    err,                 \* the exception that ended the construction, or "none"
    model_class,         \* the constructor the run called
    kwargs,              \* the arguments of that call
    Base_Resnet,         \* self.Base_Resnet (or the standalone Base)
    student_models,      \* self.student_models (or the one standalone student)
    weights,             \* self.weights
    no_students,         \* self.no_students
    no_blocks,           \* self.no_blocks
    Depth_channels_list, \* the last value returned by depth_channel_computer
    Overall_model_dict,  \* the checkpoint file pretrained_weight_formatter reads
    base_weights,        \* the last mapping returned by pretrained_weight_formatter
    result               \* the last value returned by BIO_Resnet.forward

vars == <<pc, err, model_class, kwargs, Base_Resnet, student_models, weights,
          no_students, no_blocks, Depth_channels_list, Overall_model_dict,
          base_weights, result>>

\* Python's None, for each kind of value that may be None.
None == "None"
NoDownsample == [present |-> FALSE, conv |-> <<>>, stride |-> 0]
NoRswd == [is_none |-> TRUE, value |-> <<>>]
Rswd(value) == [is_none |-> FALSE, value |-> value]
\* An attribute that has not been assigned.
Unbuilt == [err |-> "unbuilt"]

\* ------------------------------------------------------- sequence helpers
RECURSIVE SumSeq(_)
SumSeq(s) == IF s = <<>> THEN 0 ELSE Head(s) + SumSeq(Tail(s))

RECURSIVE ProdSeq(_)
ProdSeq(s) == IF s = <<>> THEN 1 ELSE Head(s) * ProdSeq(Tail(s))

\* ------------------------------------------------------------ tensor ops
Numel(shape) == ProdSeq(shape)

\* Tensor.unsqueeze(1): a new axis of size 1 at position 1; the data is unchanged.
unsqueeze(t) ==
    [shape |-> <<t.shape[1], 1>> \o Tail(t.shape), data |-> t.data]

\* torch.cat((a, b), dim=1) of a: (B, n, C) and b: (B, m, C).
cat(a, b) ==
    LET B == a.shape[1]
        n == a.shape[2]
        m == b.shape[2]
        C == a.shape[3]
    IN  [shape |-> <<B, n + m, C>>,
         data  |-> [k \in 1..(B * (n + m) * C) |->
                      LET bi == (k - 1) \div ((n + m) * C)
                          r  == (k - 1) % ((n + m) * C)
                          j  == r \div C
                          c  == r % C
                      IN  IF j < n
                          THEN a.data[bi * n * C + j * C + c + 1]
                          ELSE b.data[bi * m * C + (j - n) * C + c + 1]]]

\* Variant of sum: the contributions weighted by 1/n each (a mean).
sum_weighted(t) ==
    LET B == t.shape[1]
        n == t.shape[2]
        C == t.shape[3]
    IN  [shape |-> <<B, C>>,
         data  |-> [k \in 1..(B * C) |->
                      LET bi == (k - 1) \div C
                          c  == (k - 1) % C
                      IN  SumSeq([j \in 1..n |->
                                    t.data[bi * n * C + (j - 1) * C + c + 1]]) \div n]]

\* torch.sum(t, dim=1) of t: (B, n, C): the axis is removed, (B, C).
sum(t) ==
    LET B == t.shape[1]
        n == t.shape[2]
        C == t.shape[3]
    IN  [shape |-> <<B, C>>,
         data  |-> [k \in 1..(B * C) |->
                      LET bi == (k - 1) \div C
                          c  == (k - 1) % C
                      IN  SumSeq([j \in 1..n |->
                                    t.data[bi * n * C + (j - 1) * C + c + 1]])]]

\* Tensor.squeeze(1): axis 1 is removed when (and only when) its size is 1.
squeeze(t) ==
    IF Len(t.shape) >= 2 /\ t.shape[2] = 1
    THEN [shape |-> <<t.shape[1]>> \o SubSeq(t.shape, 3, Len(t.shape)),
          data  |-> t.data]
    ELSE t

\* -------------------------------------------------- the channel schedule
original_channels == <<128, 256, 512>>

\* int(x) of the rational x = num/den: truncation toward zero.
int(num, den) ==
    IF num >= 0 THEN num \div den ELSE -((-num) \div den)

\* Variant of scaled: round(...) instead of int(...).
scaled_rounded(w, j, N) == int(2 * w * (N - j) + N, 2 * N)

\* int(w * (float(N - j) / N)).  The quotient is a double; every width the
\* module passes is a power of two, so the product is exact and the result is
\* the truncation of the rational w*(N-j)/N.
scaled(w, j, N) == int(w * (N - j), N)

\* Variant of depth_channel_computer: any other no_blocks is treated as 3.
depth_channel_computer_default(nb, N) ==
    LET oc == original_channels
    IN  IF nb = 1 THEN
            [err |-> "none",
             list |-> [i \in 1..N |-> <<oc[1], oc[2], int(oc[3] * (N - i + 1), N)>>]]
        ELSE IF nb = 2 THEN
            [err |-> "none",
             list |-> [i \in 1..N |->
                         <<oc[1], int(oc[2] * (N - i + 1), N), int(oc[3] * (N - i + 1), N)>>]]
        ELSE [err |-> "none",
              list |-> [i \in 1..N |->
                          <<int(oc[1] * (N - i + 1), N), int(oc[2] * (N - i + 1), N),
                            int(oc[3] * (N - i + 1), N)>>]]

\* depth_channel_computer(no_blocks, no_students): [err, list]; j is the
\* 0-based student rank of the loops, the list is 1-based.
depth_channel_computer(nb, N) ==
    LET oc == original_channels
    IN  IF nb = 1 THEN
            [err |-> "none",
             list |-> [i \in 1..N |-> <<oc[1], oc[2], scaled(oc[3], i - 1, N)>>]]
        ELSE IF nb = 2 THEN
            [err |-> "none",
             list |-> [i \in 1..N |->
                         <<oc[1], scaled(oc[2], i - 1, N), scaled(oc[3], i - 1, N)>>]]
        ELSE IF nb = 3 THEN
            [err |-> "none",
             list |-> [i \in 1..N |->
                         <<scaled(oc[1], i - 1, N), scaled(oc[2], i - 1, N),
                           scaled(oc[3], i - 1, N)>>]]
        ELSE [err |-> "IndexError", list |-> <<>>]

\* ------------------------------------------------------ residual blocks
expansion(block) == IF block = "Bottleneck" THEN 4 ELSE 1

\* BasicBlock.__init__: the channel pairs (in, out) of its convolutions.
BasicBlock(inplanes, planes, stride, downsample, groups, base_width, dilation) ==
    IF groups # 1 \/ base_width # 64 THEN [err |-> "ValueError"]
    ELSE IF dilation > 1 THEN [err |-> "NotImplementedError"]
    ELSE [err |-> "none", block |-> "BasicBlock",
          conv1 |-> <<inplanes, planes>>, conv2 |-> <<planes, planes>>,
          conv3 |-> <<>>, out |-> planes,
          downsample |-> downsample, stride |-> stride]

\* Bottleneck.__init__: width = int(planes * (base_width / 64.)) * groups.
Bottleneck(inplanes, planes, stride, downsample, groups, base_width, dilation) ==
    LET width == int(planes * base_width, 64) * groups
    IN  [err |-> "none", block |-> "Bottleneck",
         conv1 |-> <<inplanes, width>>, conv2 |-> <<width, width>>,
         conv3 |-> <<width, planes * 4>>, out |-> planes * 4,
         downsample |-> downsample, stride |-> stride]

NewBlock(block, inplanes, planes, stride, downsample, groups, base_width, dilation) ==
    IF block = "Bottleneck"
    THEN Bottleneck(inplanes, planes, stride, downsample, groups, base_width, dilation)
    ELSE BasicBlock(inplanes, planes, stride, downsample, groups, base_width, dilation)

\* The nn.Sequential _make_layer returns, with the updated self.inplanes and
\* self.dilation, or the exception of the first block constructor that raises.
\* Blocks 2..blocks are built with the same arguments, so the layer keeps the
\* first block and one of the rest.
_make_layer_return(blocks, first, rest, inplanes1, dilation1) ==
    IF first.err # "none" THEN [err |-> first.err]
    ELSE IF rest.err # "none" THEN [err |-> rest.err]
    ELSE [err |-> "none", blocks |-> blocks, first |-> first, rest |-> rest,
          out |-> inplanes1, inplanes |-> inplanes1, dilation |-> dilation1]

\* _make_layer (the same code in Base_Resnet and Resnet_Student).  self is
\* [inplanes, dilation, groups, base_width].
_make_layer(self, block, planes, blocks, stride, dilate) ==
    LET previous_dilation == self.dilation
        dilation1 == IF dilate THEN self.dilation * stride ELSE self.dilation
        stride1   == IF dilate THEN 1 ELSE stride
        downsample ==
            IF stride1 # 1 \/ self.inplanes # planes * expansion(block)
            THEN [present |-> TRUE,
                  conv |-> <<self.inplanes, planes * expansion(block)>>,
                  stride |-> stride1]
            ELSE NoDownsample
        inplanes1 == planes * expansion(block)
    IN  _make_layer_return(
            blocks,
            NewBlock(block, self.inplanes, planes, stride1, downsample,
                     self.groups, self.base_width, previous_dilation),
            IF blocks > 1
            THEN NewBlock(block, inplanes1, planes, 1, NoDownsample,
                          self.groups, self.base_width, dilation1)
            ELSE [err |-> "none"],
            inplanes1, dilation1)

\* ------------------------------------------- parameter names and values
\* Parameter and buffer names of a torchvision ResNet checkpoint (a sample of
\* each stage), spelled out as character sequences.
K_conv1_weight  == <<"c","o","n","v","1",".","w","e","i","g","h","t">>
K_bn1_running_var ==
    <<"b","n","1",".","r","u","n","n","i","n","g","_","v","a","r">>
K_layer1_0_conv1_weight ==
    <<"l","a","y","e","r","1",".","0",".","c","o","n","v","1",".","w","e","i","g","h","t">>
K_layer2_0_conv1_weight ==
    <<"l","a","y","e","r","2",".","0",".","c","o","n","v","1",".","w","e","i","g","h","t">>
K_layer3_1_bn2_bias ==
    <<"l","a","y","e","r","3",".","1",".","b","n","2",".","b","i","a","s">>
K_layer4_0_downsample_0_weight ==
    <<"l","a","y","e","r","4",".","0",".","d","o","w","n","s","a","m","p","l","e",
      ".","0",".","w","e","i","g","h","t">>
K_fc_bias       == <<"f","c",".","b","i","a","s">>

CheckpointKeys ==
    {K_conv1_weight, K_bn1_running_var, K_layer1_0_conv1_weight,
     K_layer2_0_conv1_weight, K_layer3_1_bn2_bias, K_layer4_0_downsample_0_weight,
     K_fc_bias}

\* The state_dict keys of a Base_Resnet: its conv1, bn1 and layer1 submodules.
BaseStateKeys ==
    {K_conv1_weight, K_bn1_running_var, K_layer1_0_conv1_weight}

\* Its parameters: running statistics are buffers, without requires_grad.
BaseParameters == {K_conv1_weight, K_layer1_0_conv1_weight}

\* The value every tensor holds after initialisation, and checkpoint values.
InitValue == 0
CheckpointValues == {1, 2}

\* ------------------------------------------------------------ Base_Resnet
\* The Base once layer1 is made (norm_layer and zero_init_residual do not
\* change shapes or flags).
Base_Resnet_fields(layer1) ==
    IF layer1.err # "none" THEN [err |-> layer1.err]
    ELSE [err |-> "none",
          conv1 |-> <<3, 64>>,
          layer1 |-> layer1,
          out |-> layer1.out,
          requires_grad |-> [k \in BaseParameters |-> TRUE],
          state |-> [k \in BaseStateKeys |-> InitValue]]

\* Base_Resnet.__init__: [err, ...fields of the module].
Base_Resnet_init(block, layers, groups, width_per_group, rswd) ==
    LET rswd1 == IF rswd.is_none THEN <<FALSE, FALSE, FALSE>> ELSE rswd.value
        self  == [inplanes |-> 64, dilation |-> 1, groups |-> groups,
                  base_width |-> width_per_group]
    IN  IF Len(rswd1) # 3 THEN [err |-> "ValueError"]
        ELSE Base_Resnet_fields(_make_layer(self, block, 64, layers[1], 1, FALSE))

\* --------------------------------------------------------- Resnet_Student
\* self.layerK = layer: made holds [err, self, layers], the constructor's
\* progress; a layer that raised ends it.
AssignLayer(made, layer) ==
    IF layer.err # "none" THEN [made EXCEPT !.err = layer.err]
    ELSE [made EXCEPT !.self.inplanes = layer.inplanes,
                      !.self.dilation = layer.dilation,
                      !.layers = Append(@, layer)]

\* self.layerK = self._make_layer(block, planes, blocks, stride=2, dilate=...)
MakeStage(made, block, planes, blocks, dilate) ==
    IF made.err # "none" THEN made
    ELSE AssignLayer(made, _make_layer(made.self, block, planes, blocks, 2, dilate))

\* The student once its three stages are made.
Resnet_Student_fields(made, block, num_classes, depth_channels) ==
    IF made.err # "none" THEN [err |-> made.err]
    ELSE [err |-> "none",
          depth_channels |-> depth_channels,
          layer2 |-> made.layers[1], layer3 |-> made.layers[2],
          layer4 |-> made.layers[3],
          fc |-> <<depth_channels[3] * expansion(block), num_classes>>]

Resnet_Student_init(block, layers, num_classes, groups, width_per_group, rswd, depth_channels) ==
    LET rswd1 == IF rswd.is_none THEN <<FALSE, FALSE, FALSE>> ELSE rswd.value
        made0 == [err |-> "none",
                  self |-> [inplanes |-> 64, dilation |-> 1, groups |-> groups,
                            base_width |-> width_per_group],
                  layers |-> <<>>]
    IN  IF Len(rswd1) # 3 THEN [err |-> "ValueError"]
        ELSE Resnet_Student_fields(
                MakeStage(
                    MakeStage(
                        MakeStage(made0, block, depth_channels[1], layers[2], rswd1[1]),
                        block, depth_channels[2], layers[3], rswd1[2]),
                    block, depth_channels[3], layers[4], rswd1[3]),
                block, num_classes, depth_channels)

\* -------------------------------------------------------------- BIO_Resnet
\* base_freezer: every Base parameter that tracks gradients stops doing so.
base_freezer(base) ==
    [base EXCEPT !.requires_grad =
        [k \in DOMAIN base.requires_grad |->
            IF base.requires_grad[k] THEN FALSE ELSE base.requires_grad[k]]]

\* The students of the loop over Depth_channels_list, in list order; the
\* first failing constructor ends the loop.
RECURSIVE BuildStudents(_, _, _, _, _)
\* self.student_models.append(Student_M.to(device)), then the rest of the loop.
\* Every constructor call makes a new object: id tells the objects apart (the
\* Base, built before the loop, is object 0).
AppendStudent(block, layers, num_classes, dcl, built, Student_M) ==
    IF Student_M.err # "none"
    THEN [err |-> Student_M.err, students |-> built]
    ELSE BuildStudents(block, layers, num_classes, Tail(dcl),
                       Append(built, [id |-> Len(built) + 1] @@ Student_M))

BuildStudents(block, layers, num_classes, dcl, built) ==
    IF dcl = <<>> THEN [err |-> "none", students |-> built]
    ELSE AppendStudent(block, layers, num_classes, dcl, built,
                       Resnet_Student_init(block, layers, num_classes, 1, 64,
                                           NoRswd, Head(dcl)))

\* What BIO_Resnet.__init__ has assigned to self when it returns or raises,
\* given the schedule, the Base and the students its statements produce.
BIO_Resnet_fields(kw, dcc, base0, built) ==
    LET base  == IF kw.Base_freeze THEN base_freezer(base0) ELSE base0
        empty == [err |-> "none", Base_Resnet |-> Unbuilt, student_models |-> <<>>,
                  weights |-> Unbuilt, no_students |-> None, no_blocks |-> None,
                  Depth_channels_list |-> <<>>]
        s1 == [empty EXCEPT !.no_students = kw.no_students,
                            !.no_blocks = kw.no_blocks,
                            !.Depth_channels_list = dcc.list]
    IN  IF dcc.err # "none" THEN [empty EXCEPT !.err = dcc.err]
        ELSE IF base0.err # "none" THEN [s1 EXCEPT !.err = base0.err]
        ELSE IF built.err # "none"
             THEN [s1 EXCEPT !.err = built.err, !.Base_Resnet = base,
                             !.student_models = built.students]
        ELSE IF kw.no_students = 0
             THEN [s1 EXCEPT !.err = "ZeroDivisionError", !.Base_Resnet = base,
                             !.student_models = built.students]
        ELSE [s1 EXCEPT !.Base_Resnet = base,
                        !.student_models = built.students,
                        !.weights = [shape |-> <<1, kw.no_students, 1>>,
                                     data |-> [i \in 1..kw.no_students |->
                                                 <<1, kw.no_students>>]]]

\* The loop over Depth_channels_list, which runs once the schedule is there.
StudentsOf(block, layers, num_classes, dcc) ==
    IF dcc.err # "none" THEN [err |-> "none", students |-> <<>>]
    ELSE BuildStudents(block, layers, num_classes, dcc.list, <<>>)

\* BIO_Resnet.__init__.  kw holds num_classes, groups, width_per_group,
\* replace_stride_with_dilation, Base_freeze, no_students, no_blocks; the
\* schedule is computed first, then the Base, then the students.
BIO_Resnet_from(block, layers, kw, dcc) ==
    BIO_Resnet_fields(kw, dcc,
                      Base_Resnet_init(block, layers, 1, 64, NoRswd),
                      StudentsOf(block, layers, kw.num_classes, dcc))

BIO_Resnet_init(block, layers, kw) ==
    BIO_Resnet_from(block, layers, kw,
                    depth_channel_computer(kw.no_blocks, kw.no_students))

\* ------------------------------------------- registered submodules
\* The attributes BIO_Resnet.__init__ assigns to self, with the Python type
\* of the value assigned: student_models is a plain list, weights the tensor
\* Variable(...).to(device) returns.
AttributeTypes ==
    [Base_Resnet |-> "Module", student_models |-> "list", weights |-> "Tensor",
     no_students |-> "int", no_blocks |-> "int"]

\* nn.Module.__setattr__ registers an attribute in self._modules when its
\* value is a Module (and in self._parameters when it is a Parameter); any
\* other value is an ordinary attribute.
_modules == {a \in DOMAIN AttributeTypes : AttributeTypes[a] = "Module"}

\* Parameter names of a student (a sample of each stage and the classifier).
StudentParameters ==
    {K_layer2_0_conv1_weight, K_layer3_1_bn2_bias, K_layer4_0_downsample_0_weight,
     K_fc_bias}

\* The parameter tensors of the Base and of a student: (object, name).
Base_parameters(base) == {<<0, k>> : k \in DOMAIN base.requires_grad}

Student_parameters(student) == {<<student.id, k>> : k \in StudentParameters}

\* Module.parameters() of the ensemble: the parameters of the submodules
\* registered in self._modules (BIO_Resnet registers no Parameter of its own).
parameters(self) ==
    (IF "Base_Resnet" \in _modules THEN Base_parameters(self.Base_Resnet) ELSE {})
    \cup
    (IF "student_models" \in _modules
     THEN UNION {Student_parameters(self.student_models[i]) :
                    i \in 1..Len(self.student_models)}
     ELSE {})

\* ------------------------------------------------------------ forward
\* A block applied to a feature map of cin channels: a convolution rejects an
\* input whose channel count is not its in_channels, and `out += identity`
\* needs the identity branch to have the block's output channels.
Block_forward(blk, cin) ==
    IF blk.conv1[1] # cin THEN [err |-> "RuntimeError", channels |-> 0]
    ELSE IF blk.downsample.present /\ blk.downsample.conv[1] # cin
         THEN [err |-> "RuntimeError", channels |-> 0]
    ELSE IF ~blk.downsample.present /\ cin # blk.out
         THEN [err |-> "RuntimeError", channels |-> 0]
    ELSE [err |-> "none", channels |-> blk.out]

\* The remaining blocks of a stage, applied to the first block's output y.
Rest_forward(layer, y) ==
    IF y.err # "none" \/ layer.blocks = 1 THEN y
    ELSE Block_forward(layer.rest, y.channels)

\* An nn.Sequential stage: its first block, then the remaining blocks.
Layer_forward(layer, cin) == Rest_forward(layer, Block_forward(layer.first, cin))

\* A stage applied to the output of the stage before it.
Next_layer_forward(layer, y) ==
    IF y.err # "none" THEN y ELSE Layer_forward(layer, y.channels)

\* The feature map the Base returns for the batch x, given layer1's output y.
\* It is one tensor object, handed to every student: writes counts the
\* in-place operations applied to it since the Base returned it.
Base_return(x, y) ==
    IF y.err # "none" THEN [err |-> y.err]
    ELSE [err |-> "none", batch |-> x.batch, channels |-> y.channels, writes |-> 0]

\* Base_Resnet._forward_impl on a batch x = [batch, channels]: the feature map.
Base_forward(base, x) ==
    IF base.conv1[1] # x.channels THEN [err |-> "RuntimeError"]
    ELSE Base_return(x, Layer_forward(base.layer1, base.conv1[2]))

\* The logits a student computes: whatever its parameters make of the batch.
\* theta stands for the student's current parameters; the entries differ by
\* position so that a misplaced element shows.
Logits(B, C, theta) ==
    [shape |-> <<B, C>>, data |-> [k \in 1..(B * C) |-> theta * k + (k % 2)]]

\* The feature map of one stage of student i, as the caller sees it.
Rep(i, stage, x, y) ==
    [student |-> i, stage |-> stage, batch |-> x.batch, channels |-> y.channels]

\* Variant of Student_return: the stage outputs listed last stage first.
Student_return_reversed(student, i, x, theta, x1, x2, x3) ==
    IF x1.err # "none" \/ x2.err # "none" \/ x3.err # "none"
        \/ student.fc[1] # x3.channels
    THEN [err |-> "RuntimeError"]
    ELSE [err |-> "none", x |-> x,
          Final_out |-> Logits(x.batch, student.fc[2], theta),
          Inter_reps |-> <<Rep(i, 3, x, x3), Rep(i, 2, x, x2), Rep(i, 1, x, x1)>>]

\* Variant of Student_return: the student's first operation works in place
\* on its input.
Student_return_inplace(student, i, x, theta, x1, x2, x3) ==
    IF x1.err # "none" \/ x2.err # "none" \/ x3.err # "none"
        \/ student.fc[1] # x3.channels
    THEN [err |-> "RuntimeError"]
    ELSE [err |-> "none", x |-> [x EXCEPT !.writes = @ + 1],
          Final_out |-> Logits(x.batch, student.fc[2], theta),
          Inter_reps |-> <<Rep(i, 1, x, x1), Rep(i, 2, x, x2), Rep(i, 3, x, x3)>>]

\* return x_out, [x1, x2, x3]: avgpool, flatten and fc applied to x3.  x is
\* the caller's tensor after the call: every layer of the student makes a new
\* tensor of its input (the in-place relu and `out += identity` of a block
\* act on the block's own out), so x is left as it was.
Student_return(student, i, x, theta, x1, x2, x3) ==
    IF x1.err # "none" \/ x2.err # "none" \/ x3.err # "none"
        \/ student.fc[1] # x3.channels
    THEN [err |-> "RuntimeError"]
    ELSE [err |-> "none", x |-> x,
          Final_out |-> Logits(x.batch, student.fc[2], theta),
          Inter_reps |-> <<Rep(i, 1, x, x1), Rep(i, 2, x, x2), Rep(i, 3, x, x3)>>]

\* Resnet_Student._forward_impl: (x_out, [x1, x2, x3]).  i is the student's
\* rank, carried to tell the feature maps of different students apart.
Student_forward(student, i, x, theta) ==
    Student_return(student, i, x, theta,
        Layer_forward(student.layer2, x.channels),
        Next_layer_forward(student.layer3, Layer_forward(student.layer2, x.channels)),
        Next_layer_forward(student.layer4,
            Next_layer_forward(student.layer3,
                               Layer_forward(student.layer2, x.channels))))

\* The loop of BIO_Resnet._forward_impl over the students i..no_students-1
\* (0-based); acc holds Student_final_outs, Combined_student_outs and
\* Student_intermmediate_reps, and the log of the pass: calls lists the
\* modules evaluated so far in order, inputs the tensor each student was
\* called on, as it was at the call.
RECURSIVE ForwardLoop(_, _, _, _, _)
\* The body of the loop for student i, whose forward returned out.
ForwardStep(self, x, theta, i, acc, out) ==
    IF out.err # "none"
    THEN [acc EXCEPT !.err = out.err,
                     !.calls = Append(@, [op |-> "student", rank |-> i]),
                     !.inputs = Append(@, x)]
    ELSE ForwardLoop(self, out.x, theta, i + 1,
            [err |-> "none",
             calls |-> Append(acc.calls, [op |-> "student", rank |-> i]),
             inputs |-> Append(acc.inputs, x),
             Student_final_outs |-> Append(acc.Student_final_outs, out.Final_out),
             Combined_student_outs |->
                IF i = 0 THEN unsqueeze(out.Final_out)
                ELSE cat(acc.Combined_student_outs, unsqueeze(out.Final_out)),
             Student_intermmediate_reps |->
                [j \in 1..self.no_blocks |->
                    Append(acc.Student_intermmediate_reps[j], out.Inter_reps[j])]])

ForwardLoop(self, x, theta, i, acc) ==
    IF i >= self.no_students THEN acc
    ELSE ForwardStep(self, x, theta, i, acc,
                     Student_forward(self.student_models[i + 1], i, x, theta[i + 1]))

\* Variant of BIO_return: the teacher appended after the students.
BIO_return_teacher_last(acc) ==
    IF acc.err # "none"
    THEN [err |-> acc.err, calls |-> acc.calls, inputs |-> acc.inputs]
    ELSE [err |-> "none",
          calls |-> Append(acc.calls, [op |-> "torch.sum",
                                       rank |-> Len(acc.Student_final_outs)]),
          inputs |-> acc.inputs,
          logits |-> acc.Student_final_outs
                        \o <<squeeze(sum(acc.Combined_student_outs))>>,
          reps |-> acc.Student_intermmediate_reps]

\* Teacher_out and the two returned values, after the loop.
BIO_return(acc) ==
    IF acc.err # "none"
    THEN [err |-> acc.err, calls |-> acc.calls, inputs |-> acc.inputs]
    ELSE [err |-> "none",
          calls |-> Append(acc.calls, [op |-> "torch.sum",
                                       rank |-> Len(acc.Student_final_outs)]),
          inputs |-> acc.inputs,
          logits |-> <<squeeze(sum(acc.Combined_student_outs))>>
                        \o acc.Student_final_outs,
          reps |-> acc.Student_intermmediate_reps]

\* The students run on xb, the feature map the Base returned.
BIO_students(self, xb, theta) ==
    IF xb.err # "none"
    THEN [err |-> xb.err, calls |-> <<[op |-> "Base_Resnet", rank |-> -1]>>,
          inputs |-> <<>>]
    ELSE BIO_return(
            ForwardLoop(self, xb, theta, 0,
                [err |-> "none", Student_final_outs |-> <<>>,
                 calls |-> <<[op |-> "Base_Resnet", rank |-> -1]>>,
                 inputs |-> <<>>,
                 Combined_student_outs |-> Unbuilt,
                 Student_intermmediate_reps |-> [j \in 1..self.no_blocks |-> <<>>]]))

\* BIO_Resnet._forward_impl: [err, logits, reps], the two returned values.
BIO_forward(self, x, theta) ==
    BIO_students(self, Base_forward(self.Base_Resnet, x), theta)

\* ------------------------------------------------- pretrained weights
IsSubstring(f, key) ==
    \E i \in 1..(Len(key) - Len(f) + 1) : SubSeq(key, i, i + Len(f) - 1) = f

\* Variant of StudentOnly: the classifier left out of the filter.
StudentOnly_without_fc ==
    << <<"l","a","y","e","r","2">>, <<"l","a","y","e","r","3">>,
       <<"l","a","y","e","r","4">> >>

\* The list ["layer2","layer3","layer4","fc"] of the filter.
StudentOnly ==
    << <<"l","a","y","e","r","2">>, <<"l","a","y","e","r","3">>,
       <<"l","a","y","e","r","4">>, <<"f","c">> >>

\* pretrained_weight_formatter(Arch, progress); file is what torch.load reads.
\* Overall_model_dict is bound only when Arch is "Resnet18".
pretrained_weight_formatter(Arch, file) ==
    IF Arch # "Resnet18"
    THEN [err |-> "UnboundLocalError", base_weights |-> <<>>]
    ELSE LET kept == {key \in DOMAIN file :
                        \A n \in 1..Len(StudentOnly) : ~IsSubstring(StudentOnly[n], key)}
         IN  [err |-> "none", base_weights |-> [key \in kept |-> file[key]]]

\* Variant of load_state_dict: the loaded tensors replace the parameters by
\* new ones, which track gradients.
load_state_dict_fresh(base, state_dict) ==
    LET missing    == DOMAIN base.state \ DOMAIN state_dict
        unexpected == DOMAIN state_dict \ DOMAIN base.state
        loaded == [base EXCEPT !.state =
                     [k \in DOMAIN base.state |->
                        IF k \in DOMAIN state_dict THEN state_dict[k]
                        ELSE base.state[k]],
                               !.requires_grad =
                     [k \in DOMAIN base.requires_grad |->
                        IF k \in DOMAIN state_dict THEN TRUE
                        ELSE base.requires_grad[k]]]
    IN  [loaded EXCEPT !.err =
            IF missing # {} \/ unexpected # {} THEN "RuntimeError" ELSE "none"]

\* Module.load_state_dict(state_dict) (strict): tensors of matching names are
\* copied in place, then missing or unexpected names raise.
load_state_dict(base, state_dict) ==
    LET missing    == DOMAIN base.state \ DOMAIN state_dict
        unexpected == DOMAIN state_dict \ DOMAIN base.state
        loaded == [base EXCEPT !.state =
                     [k \in DOMAIN base.state |->
                        IF k \in DOMAIN state_dict THEN state_dict[k]
                        ELSE base.state[k]]]
    IN  [loaded EXCEPT !.err =
            IF missing # {} \/ unexpected # {} THEN "RuntimeError" ELSE "none"]

\* ------------------------------------------------ exported constructors
Constructors ==
    {"BIO_Resnet18", "BIO_Resnet34", "BIO_Resnet50", "BIO_Resnet101",
     "BIO_Resnet152", "resnext50_32x4d", "resnext101_32x8d",
     "wide_BIO_Resnet50_2", "wide_BIO_Resnet101_2"}

\* What each exported constructor passes to _BIO_Resnet.
Preset(name) ==
    CASE name = "BIO_Resnet18" ->
           [arch |-> "Resnet18", block |-> "BasicBlock", layers |-> <<2, 2, 2, 2>>,
            groups |-> 1, width_per_group |-> 64]
      [] name = "BIO_Resnet34" ->
           [arch |-> "Resnet34", block |-> "BasicBlock", layers |-> <<3, 4, 6, 3>>,
            groups |-> 1, width_per_group |-> 64]
      [] name = "BIO_Resnet50" ->
           [arch |-> "Resnet50", block |-> "Bottleneck", layers |-> <<3, 4, 6, 3>>,
            groups |-> 1, width_per_group |-> 64]
      [] name = "BIO_Resnet101" ->
           [arch |-> "Resnet101", block |-> "Bottleneck", layers |-> <<3, 4, 23, 3>>,
            groups |-> 1, width_per_group |-> 64]
      [] name = "BIO_Resnet152" ->
           [arch |-> "Resnet152", block |-> "Bottleneck", layers |-> <<3, 8, 36, 3>>,
            groups |-> 1, width_per_group |-> 64]
      [] name = "resnext50_32x4d" ->
           [arch |-> "resnext50_32x4d", block |-> "Bottleneck",
            layers |-> <<3, 4, 6, 3>>, groups |-> 32, width_per_group |-> 4]
      [] name = "resnext101_32x8d" ->
           [arch |-> "resnext101_32x8d", block |-> "Bottleneck",
            layers |-> <<3, 4, 23, 3>>, groups |-> 32, width_per_group |-> 8]
      [] name = "wide_BIO_Resnet50_2" ->
           [arch |-> "wide_BIO_Resnet50_2", block |-> "Bottleneck",
            layers |-> <<3, 4, 6, 3>>, groups |-> 1, width_per_group |-> 64 * 2]
      [] name = "wide_BIO_Resnet101_2" ->
           [arch |-> "wide_BIO_Resnet101_2", block |-> "Bottleneck",
            layers |-> <<3, 4, 23, 3>>, groups |-> 1, width_per_group |-> 64 * 2]

\* The model with its Base loaded: load_state_dict has raised or not.
_BIO_Resnet_loaded(model, fmt, base) ==
    [model |-> [model EXCEPT !.Base_Resnet = [base EXCEPT !.err = "none"]],
     err |-> base.err, base_weights |-> fmt.base_weights]

\* if pretrained: state_dict = pretrained_weight_formatter(arch, progress);
\* model.Base_Resnet.load_state_dict(state_dict).  fmt is what the formatter
\* returns when it is called.
_BIO_Resnet_pretrained(pretrained, model, fmt) ==
    IF model.err # "none"
    THEN [model |-> model, err |-> model.err, base_weights |-> <<>>]
    ELSE IF ~pretrained
    THEN [model |-> model, err |-> "none", base_weights |-> <<>>]
    ELSE IF fmt.err # "none"
    THEN [model |-> model, err |-> fmt.err, base_weights |-> <<>>]
    ELSE _BIO_Resnet_loaded(model, fmt,
                            load_state_dict(model.Base_Resnet, fmt.base_weights))

\* _BIO_Resnet(arch, block, layers, pretrained, progress, num_classes, **kwargs):
\* the model, the mapping the formatter returned, and the exception if any.
_BIO_Resnet(arch, block, layers, pretrained, kw, file) ==
    _BIO_Resnet_pretrained(pretrained, BIO_Resnet_init(block, layers, kw),
                           pretrained_weight_formatter(arch, file))

\* ---------------------------------------------------------------- inputs
NoBlocksValues == 0..4
ClassCounts == 1..MaxClasses
BatchSizes == 1..MaxBatch
Thetas == {-1, 2}

\* replace_stride_with_dilation: None, a sequence that is too short, and
\* two well-formed values, one of which asks for a dilation.
RswdValues ==
    {NoRswd, Rswd(<<FALSE, FALSE>>), Rswd(<<FALSE, FALSE, FALSE>>),
     Rswd(<<TRUE, FALSE, FALSE>>)}

\* The values passed to the ensemble: None and a sequence that is too short.
EnsembleRswdValues == {NoRswd, Rswd(<<FALSE, FALSE>>)}

\* A complete checkpoint of the pretrained network.
FullCheckpoint == [k \in CheckpointKeys |-> 1]

\* Every mapping from some checkpoint names to values.
AnyCheckpoint == UNION {[S -> CheckpointValues] : S \in SUBSET CheckpointKeys}

Fresh ==
    /\ pc = "start"
    /\ err = "none"
    /\ model_class = None
    /\ kwargs = [ctor |-> None]
    /\ Base_Resnet = Unbuilt
    /\ student_models = <<>>
    /\ weights = Unbuilt
    /\ no_students = None
    /\ no_blocks = None
    /\ Depth_channels_list = <<>>
    /\ base_weights = <<>>
    /\ result = [err |-> "unbuilt"]

Init == Fresh /\ Overall_model_dict = FullCheckpoint

\* --------------------------------------------------------------- actions
\* A call of one of the exported constructors with keyword arguments.
Construct(name, pretrained, num_classes, rswd, Base_freeze, N, nb) ==
    /\ pc = "start"
    /\ LET p  == Preset(name)
           kw == [ctor |-> name, pretrained |-> pretrained,
                  num_classes |-> num_classes, groups |-> p.groups,
                  width_per_group |-> p.width_per_group,
                  replace_stride_with_dilation |-> rswd,
                  Base_freeze |-> Base_freeze, no_students |-> N, no_blocks |-> nb]
       IN  \E r \in {_BIO_Resnet(p.arch, p.block, p.layers, pretrained, kw,
                                 Overall_model_dict)} :
           /\ pc' = IF r.err = "none" THEN "built" ELSE "failed"
           /\ err' = r.err
           /\ model_class' = "BIO_Resnet"
           /\ kwargs' = kw
           /\ Base_Resnet' = r.model.Base_Resnet
           /\ student_models' = r.model.student_models
           /\ weights' = r.model.weights
           /\ no_students' = r.model.no_students
           /\ no_blocks' = r.model.no_blocks
           /\ Depth_channels_list' = r.model.Depth_channels_list
           /\ base_weights' = r.base_weights
    /\ UNCHANGED <<Overall_model_dict, result>>

\* A direct construction of the Base with the arguments of a preset.
New_Base_Resnet(name, rswd) ==
    /\ pc = "start"
    /\ LET p == Preset(name)
       IN  \E r \in {Base_Resnet_init(p.block, p.layers, p.groups,
                                      p.width_per_group, rswd)} :
           /\ pc' = IF r.err = "none" THEN "built" ELSE "failed"
           /\ err' = r.err
           /\ Base_Resnet' = IF r.err = "none" THEN r ELSE Unbuilt
           /\ kwargs' = [ctor |-> name, groups |-> p.groups,
                         width_per_group |-> p.width_per_group,
                         replace_stride_with_dilation |-> rswd]
    /\ model_class' = "Base_Resnet"
    /\ UNCHANGED <<student_models, weights, no_students, no_blocks,
                   Depth_channels_list, Overall_model_dict, base_weights, result>>

\* A direct construction of one student with the arguments of a preset.
New_Resnet_Student(name, num_classes, rswd) ==
    /\ pc = "start"
    /\ LET p == Preset(name)
       IN  \E r \in {Resnet_Student_init(p.block, p.layers, num_classes, p.groups,
                                         p.width_per_group, rswd, original_channels)} :
           /\ pc' = IF r.err = "none" THEN "built" ELSE "failed"
           /\ err' = r.err
           /\ student_models' = IF r.err = "none" THEN <<r>> ELSE <<>>
           /\ kwargs' = [ctor |-> name, num_classes |-> num_classes,
                         groups |-> p.groups,
                         width_per_group |-> p.width_per_group,
                         replace_stride_with_dilation |-> rswd]
    /\ model_class' = "Resnet_Student"
    /\ UNCHANGED <<Base_Resnet, weights, no_students, no_blocks,
                   Depth_channels_list, Overall_model_dict, base_weights, result>>

\* model.base_freezer() on a constructed ensemble.
Freeze ==
    /\ pc = "built"
    /\ model_class = "BIO_Resnet"
    /\ Base_Resnet' = base_freezer(Base_Resnet)
    /\ UNCHANGED <<pc, err, model_class, kwargs, student_models, weights,
                   no_students, no_blocks, Depth_channels_list,
                   Overall_model_dict, base_weights, result>>

\* model(x) on a constructed ensemble, for a batch of B images.
ForwardOn(B, theta) ==
    /\ LET self == [Base_Resnet |-> Base_Resnet, student_models |-> student_models,
                    no_students |-> no_students, no_blocks |-> no_blocks,
                    weights |-> weights]
       IN  \E r \in {BIO_forward(self, [batch |-> B, channels |-> 3], theta)} :
             result' = IF r.err = "none"
                       THEN [err |-> "none", batch |-> B, theta |-> theta,
                             logits |-> r.logits, reps |-> r.reps,
                             calls |-> r.calls, inputs |-> r.inputs]
                       ELSE [err |-> r.err, calls |-> r.calls, inputs |-> r.inputs]
    /\ UNCHANGED <<pc, err, model_class, kwargs, Base_Resnet, student_models,
                   weights, no_students, no_blocks, Depth_channels_list,
                   Overall_model_dict, base_weights>>

\* theta: the parameters the optimizer has left in each student at this call.
Forward(B) ==
    /\ pc = "built"
    /\ model_class = "BIO_Resnet"
    /\ \E theta \in [1..no_students -> Thetas] : ForwardOn(B, theta)

Next ==
    \/ \E name \in Constructors, pretrained \in BOOLEAN, num_classes \in ClassCounts,
          rswd \in EnsembleRswdValues, Base_freeze \in BOOLEAN,
          N \in 0..MaxStudents, nb \in NoBlocksValues :
            Construct(name, pretrained, num_classes, rswd, Base_freeze, N, nb)
    \/ \E name \in Constructors, rswd \in RswdValues : New_Base_Resnet(name, rswd)
    \/ \E name \in Constructors, num_classes \in ClassCounts, rswd \in RswdValues :
            New_Resnet_Student(name, num_classes, rswd)
    \/ Freeze
    \/ \E B \in BatchSizes : Forward(B)

Spec == Init /\ [][Next]_vars

\* ------------------------------- the channel schedule as a pure function
Call_depth_channel_computer(nb, N) ==
    /\ pc = "start"
    /\ \E r \in {depth_channel_computer(nb, N)} :
           /\ pc' = IF r.err = "none" THEN "returned" ELSE "failed"
           /\ err' = r.err
           /\ Depth_channels_list' = r.list
    /\ model_class' = "depth_channel_computer"
    /\ kwargs' = [ctor |-> None, no_blocks |-> nb, no_students |-> N]
    /\ UNCHANGED <<Base_Resnet, student_models, weights, no_students, no_blocks,
                   Overall_model_dict, base_weights, result>>

NextSchedule ==
    \E nb \in NoBlocksValues, N \in 0..MaxSchedStudents :
        Call_depth_channel_computer(nb, N)

SpecSchedule == Init /\ [][NextSchedule]_vars

\* --------------------------- pretrained loading over every checkpoint
InitCheckpoint == Fresh /\ Overall_model_dict \in AnyCheckpoint

NextCheckpoint ==
    \E name \in {"BIO_Resnet18", "BIO_Resnet50"}, Base_freeze \in BOOLEAN :
        Construct(name, TRUE, 1000, NoRswd, Base_freeze, 4, 3)

SpecCheckpoint == InitCheckpoint /\ [][NextCheckpoint]_vars

\* ================================================================ claims
\* A forward pass of a constructed ensemble has returned its two values.
Returned ==
    /\ pc = "built"
    /\ model_class = "BIO_Resnet"
    /\ result.err = "none"

\* Element (b, c) of a (B, C) tensor's row-major data, b and c 1-based.
At(t, b, c, C) == t.data[(b - 1) * C + c]

\* C1: the teacher logits a forward pass returns are, element by element, the
\* plain sum of the logits of the N students of that pass: not their mean, and
\* not weighted by self.weights.
C1_TeacherIsRawSum ==
    Returned =>
        LET C == kwargs.num_classes
            teacher == result.logits[1]
        IN  /\ Len(teacher.data) = result.batch * C
            /\ \A b \in 1..result.batch, c \in 1..C :
                 At(teacher, b, c, C) =
                    SumSeq([i \in 1..no_students |-> At(result.logits[i + 1], b, c, C)])

C1_Witness ==
    /\ Returned
    /\ no_students >= 2
    /\ result.batch >= 2
    /\ kwargs.num_classes >= 2
    /\ weights.data[1] = <<1, no_students>>
    /\ result.logits[1].data # result.logits[2].data
    /\ \E k \in 1..Len(result.logits[1].data) : result.logits[1].data[k] # 0

\* C2: the first returned value is a list of N+1 logits: the teacher first,
\* then student i at index i+1, in rank order.
C2_LogitsList ==
    Returned =>
        /\ Len(result.logits) = no_students + 1
        /\ \A i \in 1..no_students :
             result.logits[i + 1] =
                Logits(result.batch, kwargs.num_classes, result.theta[i])
        /\ \A k \in 1..Len(result.logits[1].data) :
             result.logits[1].data[k] =
                SumSeq([i \in 1..no_students |-> result.logits[i + 1].data[k]])

C2_Witness ==
    /\ Returned
    /\ no_students >= 2
    /\ \E i, j \in 1..no_students : result.theta[i] # result.theta[j]

\* C3: the teacher and every student's logits all have shape (B, num_classes),
\* also when num_classes = 1 or N = 1.
C3_AllShapesBC ==
    Returned =>
        \A i \in 1..Len(result.logits) :
            result.logits[i].shape = <<result.batch, kwargs.num_classes>>

\* C4: for N >= 1 and no_blocks in {1,2,3} the schedule is non-increasing in
\* student rank in each stage and every width is at least 1.
C4_ScheduleMonotonePositive ==
    (pc = "returned" /\ kwargs.no_students >= 1) =>
        \A j \in 1..kwargs.no_students, s \in 1..3 :
            /\ Depth_channels_list[j][s] >= 1
            /\ j < kwargs.no_students =>
                 Depth_channels_list[j + 1][s] <= Depth_channels_list[j][s]

\* C5: the schedule has N entries of 3 widths; for rank j the last no_blocks
\* widths are floor(w*(N-j)/N) and the earlier ones the base width; rank 0
\* has the full widths, and for N=5, no_blocks=3, rank 4 has [25,51,102].
C5_ScheduleValues ==
    pc = "returned" =>
        LET N  == kwargs.no_students
            nb == kwargs.no_blocks
        IN  /\ Len(Depth_channels_list) = N
            /\ \A j \in 0..(N - 1) :
                 /\ Len(Depth_channels_list[j + 1]) = 3
                 /\ \A s \in 1..3 :
                      LET w == Depth_channels_list[j + 1][s]
                          base == original_channels[s]
                      IN  IF s > 3 - nb
                          THEN w * N <= base * (N - j) /\ base * (N - j) < (w + 1) * N
                          ELSE w = base
            /\ N >= 1 => Depth_channels_list[1] = <<128, 256, 512>>
            /\ (N = 5 /\ nb = 3) => Depth_channels_list[5] = <<25, 51, 102>>

C5_Witness ==
    /\ pc = "returned"
    /\ kwargs.no_students = 5
    /\ kwargs.no_blocks = 3
    /\ Depth_channels_list[5] = <<25, 51, 102>>
    /\ Depth_channels_list[2] = <<102, 204, 409>>

\* C6: an ensemble constructed with Base_freeze=True has every Base
\* parameter's requires_grad false once constructed and in every later state:
\* neither base_freezer, nor the pretrained loading, nor a forward pass sets
\* it back.
C6_FrozenStaysFrozen ==
    (pc = "built" /\ model_class = "BIO_Resnet" /\ kwargs.Base_freeze) =>
        /\ DOMAIN Base_Resnet.requires_grad = BaseParameters
        /\ \A k \in DOMAIN Base_Resnet.requires_grad : ~Base_Resnet.requires_grad[k]

C6_Witness ==
    /\ Returned
    /\ kwargs.Base_freeze
    /\ kwargs.pretrained
    /\ \A k \in BaseParameters : ~Base_Resnet.requires_grad[k]
    /\ \A k \in BaseStateKeys : Base_Resnet.state[k] = Overall_model_dict[k]

\* C7 (as stated): the second returned value always has exactly three lists,
\* list s holding the stage-s output of each of the N students in rank order.
C7_ThreeStageLists ==
    Returned =>
        /\ Len(result.reps) = 3
        /\ \A s \in 1..3 :
             /\ Len(result.reps[s]) = no_students
             /\ \A i \in 1..no_students :
                  /\ result.reps[s][i].student = i - 1
                  /\ result.reps[s][i].stage = s

\* C7 (amended): the second returned value has exactly no_blocks lists, for
\* the first no_blocks student stages; list s holds the stage-s output of each
\* of the N students in rank order.
C7_NoBlocksStageLists ==
    Returned =>
        /\ Len(result.reps) = kwargs.no_blocks
        /\ \A s \in 1..kwargs.no_blocks :
             /\ Len(result.reps[s]) = no_students
             /\ \A i \in 1..no_students :
                  /\ result.reps[s][i].student = i - 1
                  /\ result.reps[s][i].stage = s
                  /\ result.reps[s][i].channels =
                        Depth_channels_list[i][s] * expansion(Preset(kwargs.ctor).block)

C7_Witness ==
    /\ Returned
    /\ kwargs.no_blocks = 2
    /\ no_students >= 2
    /\ Len(result.reps) = 2
    /\ result.reps[2][2].channels < result.reps[2][1].channels

\* A name belongs to a submodule when it starts with the submodule's name and
\* a dot.
BelongsTo(key, module) ==
    /\ Len(key) > Len(module)
    /\ SubSeq(key, 1, Len(module)) = module
    /\ key[Len(module) + 1] = "."

StudentOnlyKey(key) ==
    \E n \in 1..4 :
        BelongsTo(key, << <<"l","a","y","e","r","2">>, <<"l","a","y","e","r","3">>,
                          <<"l","a","y","e","r","4">>, <<"f","c">> >>[n])

\* C8: the mapping pretrained_weight_formatter returns, which is loaded into
\* the Base, holds no name of layer2, layer3, layer4 or fc, and holds every
\* other name of the checkpoint with the checkpoint's value; a Base that was
\* loaded holds those values.
C8_FilteredCheckpoint ==
    (model_class = "BIO_Resnet" /\ err \in {"none", "RuntimeError"}) =>
        /\ DOMAIN base_weights \subseteq DOMAIN Overall_model_dict
        /\ \A key \in DOMAIN Overall_model_dict :
             IF StudentOnlyKey(key)
             THEN key \notin DOMAIN base_weights
             ELSE /\ key \in DOMAIN base_weights
                  /\ base_weights[key] = Overall_model_dict[key]
        /\ pc = "built" =>
             /\ DOMAIN base_weights = DOMAIN Base_Resnet.state
             /\ \A key \in DOMAIN Base_Resnet.state :
                  Base_Resnet.state[key] = Overall_model_dict[key]

C8_Witness ==
    /\ pc = "built"
    /\ model_class = "BIO_Resnet"
    /\ kwargs.pretrained
    /\ K_fc_bias \in DOMAIN Overall_model_dict
    /\ K_layer2_0_conv1_weight \in DOMAIN Overall_model_dict
    /\ K_layer4_0_downsample_0_weight \in DOMAIN Overall_model_dict
    /\ DOMAIN base_weights = BaseStateKeys
    /\ Base_Resnet.state[K_conv1_weight] = 2
    /\ Base_Resnet.state[K_layer1_0_conv1_weight] = 1

\* C9: a BIO_Resnet construction with no_blocks outside {1,2,3} raises at
\* once: no Base and no student has been constructed, and no forward pass is
\* ever run on it.
C9_BadNoBlocksRaisesFirst ==
    (model_class = "BIO_Resnet" /\ kwargs.no_blocks \notin {1, 2, 3}) =>
        /\ pc = "failed"
        /\ err = "IndexError"
        /\ Base_Resnet = Unbuilt
        /\ student_models = <<>>
        /\ result.err = "unbuilt"

C9_Witness ==
    /\ model_class = "BIO_Resnet"
    /\ kwargs.no_blocks = 4
    /\ kwargs.no_students >= 1
    /\ pc = "failed"
    /\ err = "IndexError"

\* C10: constructing a Base_Resnet, a Resnet_Student or a BIO_Resnet with a
\* replace_stride_with_dilation that is not None and not of length 3 raises;
\* no such model is returned.
C10_MalformedRswdRaises ==
    (model_class \in {"Base_Resnet", "Resnet_Student", "BIO_Resnet"}
        /\ ~kwargs.replace_stride_with_dilation.is_none
        /\ Len(kwargs.replace_stride_with_dilation.value) # 3) =>
            pc = "failed"

\* The preset a wide constructor is documented to widen.
NarrowOf(name) ==
    IF name = "wide_BIO_Resnet50_2" THEN "BIO_Resnet50" ELSE "BIO_Resnet101"

\* Bottleneck w is Bottleneck n with the inner width doubled and the outer
\* channel counts (conv1 input, conv3 output) unchanged.
TwiceInner(w, n) ==
    /\ w.conv1 = <<n.conv1[1], 2 * n.conv1[2]>>
    /\ w.conv2 = <<2 * n.conv2[1], 2 * n.conv2[2]>>
    /\ w.conv3 = <<2 * n.conv3[1], n.conv3[2]>>

LayerTwiceInner(w, n) ==
    /\ w.blocks = n.blocks
    /\ TwiceInner(w.first, n.first)
    /\ TwiceInner(w.rest, n.rest)

\* C11: the model wide_BIO_Resnet50_2 (wide_BIO_Resnet101_2) builds is the one
\* BIO_Resnet50 (BIO_Resnet101) builds from the same arguments with the inner
\* width of every Bottleneck doubled and the outer channel counts unchanged.
C11_WideTwiceInner ==
    (/\ pc = "built"
     /\ model_class = "BIO_Resnet"
     /\ kwargs.ctor \in {"wide_BIO_Resnet50_2", "wide_BIO_Resnet101_2"}) =>
        LET p == Preset(NarrowOf(kwargs.ctor))
            n == BIO_Resnet_init(p.block, p.layers, kwargs)
        IN  /\ n.err = "none"
            /\ LayerTwiceInner(Base_Resnet.layer1, n.Base_Resnet.layer1)
            /\ Len(student_models) = Len(n.student_models)
            /\ \A i \in 1..Len(student_models) :
                    /\ LayerTwiceInner(student_models[i].layer2,
                                       n.student_models[i].layer2)
                    /\ LayerTwiceInner(student_models[i].layer3,
                                       n.student_models[i].layer3)
                    /\ LayerTwiceInner(student_models[i].layer4,
                                       n.student_models[i].layer4)
                    /\ student_models[i].fc = n.student_models[i].fc

\* A forward pass of a constructed ensemble has returned or raised.
Forwarded ==
    /\ pc = "built"
    /\ model_class = "BIO_Resnet"
    /\ result.err # "unbuilt"

\* C12: in every forward pass the Base is evaluated exactly once and first;
\* the students follow in rank order 0..N-1, each called on the Base's output
\* as the Base returned it; the teacher sum comes only after all N students.
C12_BaseOnceThenStudentsInOrder ==
    Forwarded =>
        LET c == result.calls
            x == result.inputs
        IN  /\ Len(c) >= 1
            /\ \A k \in 1..Len(c) : (c[k].op = "Base_Resnet") <=> (k = 1)
            /\ \A k \in 2..Len(c) :
                    /\ c[k].op = "student" => (k - 2 < no_students /\ c[k].rank = k - 2)
                    /\ c[k].op = "torch.sum" =>
                            (k = no_students + 2 /\ c[k].rank = no_students)
            /\ Len(x) = Cardinality({k \in 1..Len(c) : c[k].op = "student"})
            /\ \A k \in 1..Len(x) : x[k] = x[1] /\ x[k].writes = 0
            /\ result.err = "none" =>
                    (Len(c) = no_students + 2 /\ c[Len(c)].op = "torch.sum")

C12_Witness ==
    /\ Returned
    /\ no_students >= 2
    /\ Len(result.calls) = no_students + 2
    /\ Len(result.inputs) = no_students

\* The first block of a stage takes feature maps of cin channels, through its
\* first convolution and through its downsample projection if it has one.
StageTakes(layer, cin) ==
    /\ layer.first.conv1[1] = cin
    /\ layer.first.downsample.present => layer.first.downsample.conv[1] = cin

\* C13: in every constructed ensemble with positive widths the Base's output
\* channels (64 * expansion) are what the first stage of every student takes,
\* each later stage takes what the stage before it gives (planes * expansion),
\* the classifier takes the last stage's output, and no forward pass raises a
\* channel mismatch.
C13_ChannelsChain ==
    (/\ pc = "built"
     /\ model_class = "BIO_Resnet"
     /\ \A j \in 1..Len(Depth_channels_list), s \in 1..3 :
            Depth_channels_list[j][s] >= 1) =>
        LET e == expansion(Preset(kwargs.ctor).block)
        IN  /\ Base_Resnet.out = 64 * e
            /\ \A i \in 1..Len(student_models) :
                  LET st == student_models[i]
                  IN  /\ StageTakes(st.layer2, Base_Resnet.out)
                      /\ st.layer2.out = st.depth_channels[1] * e
                      /\ StageTakes(st.layer3, st.layer2.out)
                      /\ st.layer3.out = st.depth_channels[2] * e
                      /\ StageTakes(st.layer4, st.layer3.out)
                      /\ st.layer4.out = st.depth_channels[3] * e
                      /\ st.fc[1] = st.layer4.out
            /\ result.err # "RuntimeError"

\* C14: the parameters a constructed ensemble with N >= 1 students enumerates
\* as its own contain every parameter of the Base and of each student, and
\* the students' parameter sets are disjoint from each other and from the
\* Base's.
C14_EnsembleOwnsAllParameters ==
    (pc = "built" /\ model_class = "BIO_Resnet" /\ no_students >= 1) =>
        LET self == [Base_Resnet |-> Base_Resnet, student_models |-> student_models]
            own  == parameters(self)
        IN  /\ Base_parameters(Base_Resnet) \subseteq own
            /\ \A i \in 1..no_students :
                    /\ Student_parameters(student_models[i]) \subseteq own
                    /\ Student_parameters(student_models[i])
                            \cap Base_parameters(Base_Resnet) = {}
                    /\ \A j \in 1..no_students :
                            i # j => Student_parameters(student_models[i])
                                        \cap Student_parameters(student_models[j]) = {}

\* C15: every exported constructor called with pretrained=True (and arguments
\* the ensemble accepts) returns a constructed model whose Base holds the
\* filtered checkpoint; none fails for want of a checkpoint for its
\* architecture name.
C15_PretrainedEveryArchitecture ==
    (/\ model_class = "BIO_Resnet"
     /\ kwargs.ctor \in Constructors
     /\ kwargs.pretrained
     /\ kwargs.no_students >= 1
     /\ kwargs.no_blocks \in 1..3) =>
        /\ err # "UnboundLocalError"
        /\ pc = "built"
        /\ DOMAIN base_weights = BaseStateKeys
        /\ \A k \in BaseStateKeys : Base_Resnet.state[k] = Overall_model_dict[k]

====
